---- MODULE Spec2Model ----
(***************************************************************************)
(* Model of PyFTDIAdapter.send_data (src/adapters/pyftdi.py): the          *)
(* decomposition of a TMS/TDI vector pair into write_tdi_read_tdo and      *)
(* write_tms_tdi_read_tdo hardware calls and the assembly of the returned  *)
(* TDO bits.  Bit vectors are sequences over {0,1}; Python index i is      *)
(* TLA+ index i+1.  Spec is one call of send_data at verbosity 0;           *)
(* AdapterSpec is the adapter object: set_verbosity, set_tck_period and     *)
(* send_data called on it.  The diagnostic prints read tms_stream.pos, so   *)
(* the streams are taken to be BitStreams, which have it.                   *)
(***************************************************************************)
EXTENDS Integers, Sequences, FiniteSets, TLC

\* ---------------------------------------------------------------- bounds
\* longest tms / tdi vector of the exhaustive input family
MaxLen == 4
\* longest run of consecutive tms ones in the structured input family
MaxOnes == 15
\* longest hardware reply whose bits are chosen freely
MaxFreeTdo == 2

\* longest tms / tdi vector passed to send_data in AdapterSpec
MaxAdapterLen == 3
\* highest verbosity level set through set_verbosity
MaxVerbosity == 4
\* largest period passed to set_tck_period
MaxPeriod == 3

\* -------------------------------------------------------------- constants
\* verbosity_level >= 4 prints every segment (lines 189, 246)
VerboseSegments == 4
\* verbosity_level >= 3 checks that tdi is constant (line 253)
VerboseChecks == 3
\* the 7 of min(tms0Pos, head+7)
MaxTmsBits == 7

Bit == {0, 1}
NoResult == <<"none">>
NoPos == -1

\* ------------------------------------------------------- bitstring helpers
Min2(a, b) == IF a < b THEN a ELSE b

SetMin(S) == CHOOSE x \in S : \A y \in S : x <= y

BitSeqs(n) == [1..n -> Bit]

Const(b, n) == [i \in 1..n |-> b]

\* s[i] for a valid Python index i
At(s, i) == s[i + 1]

\* variant: the slice loses its last bit
SliceShort(s, a, b) == SubSeq(s, Min2(a, Len(s)) + 1, Min2(b, Len(s)) - 1)

\* s[a:b], Python slicing: both ends are clamped to the length
Slice(s, a, b) == SubSeq(s, Min2(a, Len(s)) + 1, Min2(b, Len(s)))

\* s.find(b, start, end): the tuple holding the first position of bit b in
\* [start, end), or the empty tuple
Find(s, b, start, end) ==
    LET hits == {i \in start..(end - 1) : At(s, i) = b}
    IN  IF hits = {} THEN <<>> ELSE <<SetMin(hits)>>

\* ------------------------------------------------------------------ inputs
\* every tms / tdi pair up to MaxLen bits, equal length or not
SmallInputs ==
    {<<m, d>> : m \in UNION {BitSeqs(n) : n \in 0..MaxLen},
                d \in UNION {BitSeqs(n) : n \in 0..MaxLen}}

\* tms = 0^a 1^b 0^c (a, c at most 1) with a tdi that is constant or changes
\* once
LongInputs ==
    UNION {
      LET m == Const(0, a) \o Const(1, b) \o Const(0, c)
      IN  {<<m, Const(x, k) \o Const(1 - x, Len(m) - k)>> :
              x \in Bit, k \in 1..Len(m)}
      : a \in 0..1, b \in 1..MaxOnes, c \in 0..1}

\* the worked examples of the documentation
ExampleTms == <<0, 0, 0, 1, 1, 1, 1, 0, 0, 0>>
ExampleTdi == Const(0, 10)
MismatchTms == Const(0, 5)
MismatchTdi == Const(0, 4)
ExampleInputs == {<<ExampleTms, ExampleTdi>>, <<MismatchTms, MismatchTdi>>}

Inputs == SmallInputs \cup LongInputs \cup ExampleInputs

\* what the hardware may answer to a call that carries n bits: n bits (any
\* bits up to MaxFreeTdo, all equal beyond), or one bit too few
HwResponses(n) ==
    IF n <= MaxFreeTdo
    THEN BitSeqs(n) \cup (IF n >= 1 THEN {Const(0, n - 1)} ELSE {})
    ELSE {Const(0, n), Const(1, n)}

\* what the hardware may raise
HwErrors == {"FtdiError", "USBError"}

\* ------------------------------------------------------------------- state
VARIABLES
    tms_stream,     \* argument of send_data
    tdi_stream,     \* argument of send_data
    head,           \* local: head of the bit sequence of interest
    tms1Pos,        \* local: position of the next tms '1'
    tms0Pos,        \* local: one past the next tms '0'
    tail,           \* local: end of the current TMS segment
    tdo_stream,     \* local: the TDO bits collected so far
    pc,             \* position of send_data
    calls,          \* history of the calls made on self.device
    error,          \* the exception that left the call, if any
    result,         \* the value send_data returned, if any
    verbosity_level,\* self.verbosity_level
    printed,        \* the diagnostic lines printed so far
    period          \* argument of set_tck_period

vars == <<tms_stream, tdi_stream, head, tms1Pos, tms0Pos, tail, tdo_stream,
          pc, calls, error, result, verbosity_level, printed, period>>

\* ------------------------------------------- the computations of send_data
\* variant: the search for the next '1' starts one bit too late
Tms1PosLate(tms, h) ==
    LET tms1Find == Find(tms, 1, h + 1, Len(tms))
    IN  IF tms1Find # <<>> THEN tms1Find[1] ELSE Len(tms)

\* lines 171-178: position of the next '1' of tms at or after h
Tms1Pos(tms, h) ==
    LET tms1Find == Find(tms, 1, h, Len(tms))
    IN  IF tms1Find # <<>> THEN tms1Find[1] ELSE Len(tms)

\* variant: the run takes one more bit after the '0' that ends it
Tms0PosPlusTwo(tms, h) ==
    LET tms0Find == Find(tms, 0, h, Len(tms))
    IN  IF tms0Find # <<>> THEN Min2(tms0Find[1] + 2, Len(tms)) ELSE Len(tms)

\* variant: the '0' that ends the run of ones is left out of the run
Tms0PosNoReturnBit(tms, h) ==
    LET tms0Find == Find(tms, 0, h, Len(tms))
    IN  IF tms0Find # <<>> THEN tms0Find[1] ELSE Len(tms)

\* lines 201-210: one past the next '0' of tms at or after h
Tms0Pos(tms, h) ==
    LET tms0Find == Find(tms, 0, h, Len(tms))
    IN  IF tms0Find # <<>> THEN tms0Find[1] + 1 ELSE Len(tms)

\* variant: the segment is not cut at all
TailNoLimit(t0, h) == t0

\* variant: the segment is cut one bit too early
TailLimitMinusOne(t0, h) == Min2(t0, h + MaxTmsBits - 1)

\* variant: the segment is cut one bit too late
TailLimitPlusOne(t0, h) == Min2(t0, h + MaxTmsBits + 1)

\* line 227: at most 7 TMS bits per segment
TailLimit(t0, h) == Min2(t0, h + MaxTmsBits)

\* line 239: tdi_stream[head] raises IndexError past the end, find raises
\* ValueError when end is past the end
TdiFindError(tdi, h, t) ==
    IF h >= Len(tdi) THEN "IndexError"
    ELSE IF t > Len(tdi) THEN "ValueError"
    ELSE "none"

\* variant: a change of tdi does not cut the segment
TdiNoSplit(tdi, h, t) == t

\* lines 239-244: cut the segment where tdi first differs from tdi[head]
TdiSplit(tdi, h, t) ==
    LET tdiFind == Find(tdi, 1 - At(tdi, h), h, t)
    IN  IF tdiFind # <<>> THEN tdiFind[1] ELSE t

\* variant: the TDI of the bit that ends the whole run of ones (the reading
\* of the comment at lines 215-217)
TdiValueAtRunEnd(tdi, h, t, t0) == At(tdi, Min2(t0, Len(tdi)) - 1)

\* line 260: the constant TDI of a TMS segment is its final tdi bit
TdiValue(tdi, h, t, t0) == At(tdi, t - 1)

\* variant: = instead of +=
TdoAssign(tdo, resp) == resp

\* variant: the reply is put in front
TdoPrepend(tdo, resp) == resp \o tdo

\* lines 193, 260: tdo_stream += <reply>
TdoAppend(tdo, resp) == tdo \o resp

\* variant: the exception is swallowed and the loop goes on
AfterRaiseSwallowed(kind) == IF kind = "tdi" THEN "advance" ELSE "advance_inner"

\* lines 193, 260: an exception of the device is not caught
AfterRaise(kind) == "raised"

\* variant: head is not advanced
NextHeadStuck(h, t) == h

\* variant: head advances by one bit only
NextHeadByOne(h, t) == h + 1

\* line 263: head = tail
NextHead(h, t) == t

\* variant: the write is indented under the verbosity test
TdiRunBlockWriteInIf(level) ==
    [print |-> level >= VerboseSegments, write |-> level >= VerboseSegments]

\* lines 189-193: what the TDI block does at a verbosity level: the print is
\* guarded, the write is not
TdiRunBlock(level) == [print |-> level >= VerboseSegments, write |-> TRUE]

\* variant: a tdi that is not constant is written only when it is not checked
TmsRunBlockWriteUnchecked(level, constant) ==
    [print |-> level >= VerboseSegments,
     warn  |-> level >= VerboseChecks /\ ~constant,
     write |-> level < VerboseChecks]

\* lines 246-260: what the TMS block does at a verbosity level: the print and
\* the constancy check are guarded, the write is not
TmsRunBlock(level, constant) ==
    [print |-> level >= VerboseSegments,
     warn  |-> level >= VerboseChecks /\ ~constant,
     write |-> TRUE]

\* lines 254-255: tdi_stream[head:tail] is all 0 or all 1
IsConstant(bits) == bits \in {Const(0, Len(bits)), Const(1, Len(bits))}

\* line 68: the names bound in set_frequency
SetFrequencyParams == {"self", "frequncey"}

\* the periods passed to set_tck_period
Periods == 0..MaxPeriod

\* the equal-length pairs up to MaxAdapterLen bits and the worked examples
AdapterInputs ==
    UNION {BitSeqs(n) \X BitSeqs(n) : n \in 0..MaxAdapterLen}
    \cup ExampleInputs

Call(kind, h, t, bits, tdi) ==
    [kind |-> kind, head |-> h, tail |-> t, bits |-> bits, tdi |-> tdi,
     status |-> "pending", resp |-> <<>>, err |-> "none"]

\* ------------------------------------------------------------------- Init
Init ==
    /\ \E in \in Inputs : tms_stream = in[1] /\ tdi_stream = in[2]
    /\ head = 0                       \* line 168
    /\ tms1Pos = NoPos
    /\ tms0Pos = NoPos
    /\ tail = NoPos
    /\ tdo_stream = <<>>              \* line 126
    /\ pc = "while_outer"
    /\ calls = <<>>
    /\ error = "none"
    /\ result = NoResult
    /\ verbosity_level = 0
    /\ printed = <<>>
    /\ period = NoPos

\* the adapter after construction, no call made yet; the level is that of
\* the jtag base class until set_verbosity is called, taken as 0
InitAdapter ==
    /\ tms_stream = <<>>
    /\ tdi_stream = <<>>
    /\ head = 0
    /\ tms1Pos = NoPos
    /\ tms0Pos = NoPos
    /\ tail = NoPos
    /\ tdo_stream = <<>>
    /\ pc = "idle"
    /\ calls = <<>>
    /\ error = "none"
    /\ result = NoResult
    /\ verbosity_level = 0
    /\ printed = <<>>
    /\ period = NoPos

\* ---------------------------------------------------------------- actions
\* line 169-178: loop test, then the search for the next '1'
WhileOuter ==
    /\ pc = "while_outer"
    /\ IF head < Len(tms_stream)
       THEN /\ tms1Pos' = Tms1Pos(tms_stream, head)
            /\ pc' = "if_tdi"
       ELSE /\ pc' = "return"
            /\ UNCHANGED tms1Pos
    /\ UNCHANGED <<tms_stream, tdi_stream, head, tms0Pos, tail, tdo_stream,
                   calls, error, result>>
    /\ UNCHANGED <<verbosity_level, printed, period>>

\* lines 186-193: the TDI bits before the next '1' go out with TMS = 0
IfTdiRun ==
    /\ pc = "if_tdi"
    /\ IF tms1Pos > head
       THEN LET b == TdiRunBlock(verbosity_level)
            IN  /\ printed' = IF b.print
                              THEN Append(printed, "tms0") ELSE printed
                /\ IF b.write
                   THEN /\ calls' = Append(calls,
                               Call("tdi", head, tms1Pos,
                                    Slice(tdi_stream, head, tms1Pos), NoPos))
                        /\ pc' = "call_tdi"
                   ELSE /\ pc' = "advance"
                        /\ UNCHANGED calls
       ELSE /\ pc' = "advance"
            /\ UNCHANGED <<calls, printed>>
    /\ UNCHANGED <<tms_stream, tdi_stream, head, tms1Pos, tms0Pos, tail,
                   tdo_stream, error, result, verbosity_level, period>>

\* the device answers the pending call; its reply is appended to tdo_stream
HwReturn ==
    /\ pc \in {"call_tdi", "call_tms"}
    /\ LET c == calls[Len(calls)]
       IN  \E resp \in HwResponses(Len(c.bits)) :
             /\ calls' = [calls EXCEPT ![Len(calls)] =
                            [c EXCEPT !.status = "returned", !.resp = resp]]
             /\ tdo_stream' = TdoAppend(tdo_stream, resp)
    /\ pc' = IF pc = "call_tdi" THEN "advance" ELSE "advance_inner"
    /\ UNCHANGED <<tms_stream, tdi_stream, head, tms1Pos, tms0Pos, tail,
                   error, result>>
    /\ UNCHANGED <<verbosity_level, printed, period>>

\* the device raises instead; nothing in send_data catches it
HwRaise ==
    /\ pc \in {"call_tdi", "call_tms"}
    /\ LET c == calls[Len(calls)]
       IN  \E e \in HwErrors :
             /\ calls' = [calls EXCEPT ![Len(calls)] =
                            [c EXCEPT !.status = "raised", !.err = e]]
             /\ error' = e
             /\ pc' = AfterRaise(c.kind)
    /\ UNCHANGED <<tms_stream, tdi_stream, head, tms1Pos, tms0Pos, tail,
                   tdo_stream, result>>
    /\ UNCHANGED <<verbosity_level, printed, period>>

\* lines 196-210: head = tms1Pos, break at the end, else search the next '0'
Advance ==
    /\ pc = "advance"
    /\ head' = tms1Pos
    /\ IF head' >= Len(tms_stream)
       THEN /\ pc' = "return"
            /\ UNCHANGED tms0Pos
       ELSE /\ tms0Pos' = Tms0Pos(tms_stream, head')
            /\ pc' = "while_inner"
    /\ UNCHANGED <<tms_stream, tdi_stream, tms1Pos, tail, tdo_stream, calls,
                   error, result>>
    /\ UNCHANGED <<verbosity_level, printed, period>>

\* lines 222-260: one TMS segment of at most 7 bits with a constant TDI
WhileInner ==
    /\ pc = "while_inner"
    /\ IF tms0Pos > head
       THEN LET t7 == TailLimit(tms0Pos, head)
                e  == TdiFindError(tdi_stream, head, t7)
            IN  IF e # "none"
                THEN /\ error' = e
                     /\ pc' = "raised"
                     /\ UNCHANGED <<tail, calls, printed>>
                ELSE LET t == TdiSplit(tdi_stream, head, t7)
                         b == TmsRunBlock(verbosity_level,
                                 IsConstant(Slice(tdi_stream, head, t)))
                     IN  /\ tail' = t
                         /\ printed' =
                               printed
                               \o (IF b.print THEN <<"tms1">> ELSE <<>>)
                               \o (IF b.warn THEN <<"not constant">> ELSE <<>>)
                         /\ IF b.write
                            THEN /\ calls' = Append(calls,
                                      Call("tms", head, t,
                                           Slice(tms_stream, head, t),
                                           TdiValue(tdi_stream, head, t,
                                                    tms0Pos)))
                                 /\ pc' = "call_tms"
                            ELSE /\ pc' = "advance_inner"
                                 /\ UNCHANGED calls
                         /\ UNCHANGED error
       ELSE /\ pc' = "while_outer"
            /\ UNCHANGED <<tail, calls, error, printed>>
    /\ UNCHANGED <<tms_stream, tdi_stream, head, tms1Pos, tms0Pos,
                   tdo_stream, result, verbosity_level, period>>

\* line 263: head = tail
AdvanceInner ==
    /\ pc = "advance_inner"
    /\ head' = NextHead(head, tail)
    /\ pc' = "while_inner"
    /\ UNCHANGED <<tms_stream, tdi_stream, tms1Pos, tms0Pos, tail,
                   tdo_stream, calls, error, result>>
    /\ UNCHANGED <<verbosity_level, printed, period>>

\* line 269: return tdo_stream
Return ==
    /\ pc = "return"
    /\ result' = tdo_stream
    /\ pc' = "done"
    /\ UNCHANGED <<tms_stream, tdi_stream, head, tms1Pos, tms0Pos, tail,
                   tdo_stream, calls, error>>
    /\ UNCHANGED <<verbosity_level, printed, period>>

\* line 65: set_verbosity(level)
SetVerbosity ==
    /\ pc = "idle"
    /\ \E level \in 0..MaxVerbosity : verbosity_level' = level
    /\ UNCHANGED <<tms_stream, tdi_stream, head, tms1Pos, tms0Pos, tail,
                   tdo_stream, pc, calls, error, result, printed, period>>

\* lines 108-168: send_data(tms_stream, tdi_stream) is entered
SendData ==
    /\ pc = "idle"
    /\ \E in \in AdapterInputs : tms_stream' = in[1] /\ tdi_stream' = in[2]
    /\ tdo_stream' = <<>>
    /\ head' = 0
    /\ pc' = "while_outer"
    /\ UNCHANGED <<tms1Pos, tms0Pos, tail, calls, error, result,
                   verbosity_level, printed, period>>

\* line 88: set_tck_period(period) evaluates 1e9/period and calls
\* set_frequency
SetTckPeriod ==
    /\ pc = "idle"
    /\ \E p \in Periods :
          /\ period' = p
          /\ IF p = 0
             THEN error' = "ZeroDivisionError" /\ pc' = "raised"
             ELSE pc' = "set_frequency" /\ UNCHANGED error
    /\ UNCHANGED <<tms_stream, tdi_stream, head, tms1Pos, tms0Pos, tail,
                   tdo_stream, calls, result, verbosity_level, printed>>

\* lines 68-76: set_frequency reads the name frequency; its parameter is
\* called frequncey, so the name is not bound and line 76 raises before
\* self.device.set_frequency is called
SetFrequency ==
    /\ pc = "set_frequency"
    /\ IF "frequency" \in SetFrequencyParams
       THEN /\ calls' = Append(calls, Call("freq", 0, 0, <<>>, NoPos))
            /\ pc' = "call_freq"
            /\ UNCHANGED error
       ELSE /\ error' = "NameError"
            /\ pc' = "raised"
            /\ UNCHANGED calls
    /\ UNCHANGED <<tms_stream, tdi_stream, head, tms1Pos, tms0Pos, tail,
                   tdo_stream, result, verbosity_level, printed, period>>

Next ==
    \/ WhileOuter
    \/ IfTdiRun
    \/ HwReturn
    \/ HwRaise
    \/ Advance
    \/ WhileInner
    \/ AdvanceInner
    \/ Return

Spec == Init /\ [][Next]_vars

NextAdapter ==
    \/ SetVerbosity
    \/ SendData
    \/ SetTckPeriod
    \/ SetFrequency
    \/ Next

AdapterSpec == InitAdapter /\ [][NextAdapter]_vars

\* send_data is sequential code: it always executes its next statement, and
\* a pending call on the device returns or raises
FairSpec == Init /\ [][Next]_vars /\ WF_vars(Next)

\* ------------------------------------------------------ shared vocabulary
N == Len(tms_stream)

EqualLen == Len(tms_stream) = Len(tdi_stream)

\* every call so far returned as many bits as it was given
AllExact ==
    \A k \in 1..Len(calls) :
        calls[k].status = "returned" /\ Len(calls[k].resp) = Len(calls[k].bits)

\* the replies of the calls, in call order
RECURSIVE ConcatResp(_)
ConcatResp(cs) ==
    IF cs = <<>> THEN <<>> ELSE cs[1].resp \o ConcatResp(Tail(cs))

\* the TMS line over the calls: the tms bits of a TMS segment, 0 during a
\* TDI segment
RECURSIVE Waveform(_)
Waveform(cs) ==
    IF cs = <<>> THEN <<>>
    ELSE (IF cs[1].kind = "tms" THEN cs[1].bits ELSE Const(0, Len(cs[1].bits)))
         \o Waveform(Tail(cs))

\* the segments as (kind, head, tail, tdi value)
Segments == [k \in 1..Len(calls) |->
                <<calls[k].kind, calls[k].head, calls[k].tail, calls[k].tdi>>]

SegLens == [k \in 1..Len(calls) |-> calls[k].tail - calls[k].head]

CeilDiv(a, b) == (a + b - 1) \div b

\* ------------------------------------------------------------------ claims
\* C1: for equal-length tms/tdi of length N, when every hardware call
\* returned as many bits as it was given, the vector send_data returns has
\* length exactly N.
C1_OutputLength ==
    (pc = "done" /\ EqualLen /\ AllExact) => Len(result) = N

C1_Witness ==
    /\ pc = "done" /\ EqualLen /\ AllExact
    /\ N >= 3 /\ Len(calls) >= 2 /\ Len(result) = N

\* C2: the index ranges of the emitted segments are non-empty, start at 0,
\* each begins where the previous one ended, and end at N; for N = 0 there
\* is no segment and no hardware call.
C2_Tiling ==
    EqualLen =>
        /\ \A k \in 1..Len(calls) :
              /\ calls[k].head < calls[k].tail
              /\ Len(calls[k].bits) = calls[k].tail - calls[k].head
        /\ calls # <<>> => calls[1].head = 0
        /\ \A k \in 1..(Len(calls) - 1) : calls[k + 1].head = calls[k].tail
        /\ N = 0 => calls = <<>>
        /\ (pc = "done" /\ N > 0) =>
              calls # <<>> /\ calls[Len(calls)].tail = N

C2_Witness ==
    /\ pc = "done" /\ EqualLen /\ N >= 4 /\ Len(calls) >= 3
    /\ \E j, k \in 1..Len(calls) : calls[j].kind = "tdi" /\ calls[k].kind = "tms"
    /\ calls[Len(calls)].tail = N

\* C3: every call of write_tms_tdi_read_tdo carries at least 1 and at most
\* 7 tms bits.
C3_TmsRunLength ==
    EqualLen =>
        \A k \in 1..Len(calls) :
            calls[k].kind = "tms" =>
                Len(calls[k].bits) >= 1 /\ Len(calls[k].bits) <= MaxTmsBits

\* a run of more than 7 ones was cut at exactly 7 bits
C3_Witness ==
    /\ EqualLen
    /\ \E k \in 1..Len(calls) :
          /\ calls[k].kind = "tms"
          /\ Len(calls[k].bits) = MaxTmsBits
          /\ calls[k].tail < tms0Pos

\* C4: the TMS line driven over the whole call reproduces tms: every index
\* sent through write_tdi_read_tdo has tms = 0, every TMS segment carries
\* tms[head:tail], and their concatenation is tms.
C4_TmsWaveform ==
    EqualLen =>
        /\ \A k \in 1..Len(calls) :
              IF calls[k].kind = "tdi"
              THEN \A i \in calls[k].head..(calls[k].tail - 1) :
                      At(tms_stream, i) = 0
              ELSE calls[k].bits =
                      SubSeq(tms_stream, calls[k].head + 1, calls[k].tail)
        /\ pc = "done" => Waveform(calls) = tms_stream

C4_Witness ==
    /\ pc = "done" /\ EqualLen /\ Len(calls) >= 3
    /\ \E i, j \in 1..N : tms_stream[i] = 0 /\ tms_stream[j] = 1
    /\ Waveform(calls) = tms_stream

C6_TdoAssembly ==
    EqualLen =>
        /\ \A k \in 1..(Len(calls) - 1) :
              /\ calls[k].status = "returned"
              /\ calls[k].tail <= calls[k + 1].head
        /\ tdo_stream =
              ConcatResp(SelectSeq(calls, LAMBDA c : c.status = "returned"))
        /\ pc = "done" =>
              /\ result = ConcatResp(calls)
              /\ AllExact =>
                    \A k \in 1..Len(calls) :
                        \A j \in 0..(calls[k].tail - calls[k].head - 1) :
                            At(result, calls[k].head + j) = At(calls[k].resp, j)

C6_Witness ==
    /\ pc = "done" /\ EqualLen /\ AllExact /\ Len(calls) >= 3
    /\ result = ConcatResp(calls)
    /\ \E i, j \in 1..Len(result) : result[i] = 0 /\ result[j] = 1

\* C7: when len(tms) differs from len(tdi), send_data fails before any
\* hardware call: no call is made and no vector is returned.
C7_MismatchRejected ==
    ~EqualLen =>
        /\ calls = <<>>
        /\ result = NoResult
        /\ pc # "done"

\* C8: when the hardware fails on a segment, that same error leaves
\* send_data, no call is issued for a later segment, the failed segment is
\* not retried and no TDO vector is returned.
C8_HwErrorPropagates ==
    \A k \in 1..Len(calls) :
        calls[k].status = "raised" =>
            /\ k = Len(calls)
            /\ pc = "raised"
            /\ error = calls[k].err
            /\ result = NoResult

\* the hardware failed on a segment after the first, with bits left to send
C8_Witness ==
    /\ pc = "raised" /\ EqualLen
    /\ Len(calls) >= 2
    /\ calls[Len(calls)].status = "raised"
    /\ calls[Len(calls)].tail < N
    /\ error \in HwErrors

IsExample == tms_stream = ExampleTms /\ tdi_stream = ExampleTdi

\* C9 as stated: tms = 0001111000, tdi = 0000000000 gives a TdiRun over
\* [0,3), a TmsRun over [3,7) with tdi_value 0 and a TdiRun over [7,10).
C9_ExampleAsStated ==
    (IsExample /\ pc = "done") =>
        Segments = << <<"tdi", 0, 3, NoPos>>, <<"tms", 3, 7, 0>>,
                      <<"tdi", 7, 10, NoPos>> >>

\* C9 amended: tms = 0001111000, tdi = 0000000000 gives a TdiRun over
\* [0,3), a TmsRun over [3,8) with tdi_value 0 (it includes the 0 that ends
\* the run of ones) and a TdiRun over [8,10).
C9_Example ==
    (IsExample /\ pc = "done") =>
        Segments = << <<"tdi", 0, 3, NoPos>>, <<"tms", 3, 8, 0>>,
                      <<"tdi", 8, 10, NoPos>> >>

C9_Witness == IsExample /\ pc = "done" /\ Len(calls) = 3

\* tms all ones, tdi constant, at least one bit
AllOnesConstTdi ==
    /\ EqualLen /\ N >= 1
    /\ \A i \in 1..N : tms_stream[i] = 1 /\ tdi_stream[i] = tdi_stream[1]

\* C10: an all-one tms of length L >= 1 with a constant tdi gives no TdiRun
\* and exactly ceil(L/7) TmsRuns, each of 7 bits except the last, which has
\* L - 7*(ceil(L/7)-1); L = 10 gives lengths 7 then 3.
C10_AllOnes ==
    AllOnesConstTdi =>
        /\ \A k \in 1..Len(calls) : calls[k].kind = "tms"
        /\ pc = "done" =>
              /\ Len(calls) = CeilDiv(N, MaxTmsBits)
              /\ \A k \in 1..Len(calls) :
                    SegLens[k] =
                        IF k < Len(calls) THEN MaxTmsBits
                        ELSE N - MaxTmsBits * (CeilDiv(N, MaxTmsBits) - 1)
              /\ N = 10 => SegLens = <<7, 3>>

C10_Witness ==
    /\ AllOnesConstTdi /\ pc = "done" /\ N = 10
    /\ SegLens = <<7, 3>>
    /\ \A k \in 1..Len(calls) : calls[k].kind = "tms"

\* tms all ones, at least one bit, any tdi of the same length
AllOnes == EqualLen /\ N >= 1 /\ \A i \in 1..N : tms_stream[i] = 1

\* the number of positions where tdi differs from the bit before
TdiChanges == Cardinality({i \in 1..(N - 1) : tdi_stream[i] # tdi_stream[i + 1]})

NumTmsRuns == Cardinality({k \in 1..Len(calls) : calls[k].kind = "tms"})

AllZeros == EqualLen /\ N >= 1 /\ \A i \in 1..N : tms_stream[i] = 0

\* C12: for an all-zero tms of length N >= 1 and any tdi of length N,
\* send_data makes exactly one hardware call, a write_tdi_read_tdo carrying
\* tdi[0:N], and never calls write_tms_tdi_read_tdo.
C12_AllZeros ==
    AllZeros =>
        /\ Len(calls) <= 1
        /\ \A k \in 1..Len(calls) :
              /\ calls[k].kind = "tdi"
              /\ calls[k].bits = tdi_stream
        /\ pc = "done" => Len(calls) = 1

C12_Witness ==
    /\ AllZeros /\ pc = "done" /\ N >= 3
    /\ Len(calls) = 1 /\ calls[1].bits = tdi_stream
    /\ \E i, j \in 1..N : tdi_stream[i] # tdi_stream[j]

\* C13 as stated: every TmsRun has tms = 1 on every bit before its last and
\* tms = 0 on its last bit.
C13_EndsInZeroAsStated ==
    EqualLen =>
        \A k \in 1..Len(calls) :
            calls[k].kind = "tms" =>
                LET b == calls[k].bits
                IN  /\ \A i \in 1..(Len(b) - 1) : b[i] = 1
                    /\ b[Len(b)] = 0

\* C13 amended: every TmsRun has tms = 1 on every bit before its last; its
\* last bit is 0 unless the run was cut by the 7-bit limit, by a change of
\* tdi or by the end of the vector, and then the last bit may be 1.
C13_EndsInZeroUnlessCut ==
    EqualLen =>
        \A k \in 1..Len(calls) :
            calls[k].kind = "tms" =>
                LET b == calls[k].bits
                    c == calls[k]
                IN  /\ \A i \in 1..(Len(b) - 1) : b[i] = 1
                    /\ \/ b[Len(b)] = 0
                       \/ Len(b) = MaxTmsBits
                       \/ c.tail = N
                       \/ At(tdi_stream, c.tail) # At(tdi_stream, c.head)

\* a TmsRun of ones only, cut by a change of tdi before the end
C13_Witness ==
    /\ EqualLen
    /\ \E k \in 1..Len(calls) :
          /\ calls[k].kind = "tms"
          /\ \A i \in 1..Len(calls[k].bits) : calls[k].bits[i] = 1
          /\ Len(calls[k].bits) < MaxTmsBits
          /\ calls[k].tail < N
          /\ At(tdi_stream, calls[k].tail) # At(tdi_stream, calls[k].head)

\* C16: over the range [head, tail) of every TmsRun tdi is constant, so the
\* value taken from the last bit equals the value at the first bit and the
\* check "TDI segment is not constant" can never fire.
C16_TdiConstant ==
    EqualLen =>
        \A k \in 1..Len(calls) :
            calls[k].kind = "tms" =>
                /\ \A i \in calls[k].head..(calls[k].tail - 1) :
                      At(tdi_stream, i) = At(tdi_stream, calls[k].head)
                /\ calls[k].tdi = At(tdi_stream, calls[k].head)
                /\ IsConstant(Slice(tdi_stream, calls[k].head, calls[k].tail))

\* a TmsRun of several bits that a change of tdi ended
C16_Witness ==
    /\ EqualLen
    /\ \E k \in 1..Len(calls) :
          /\ calls[k].kind = "tms"
          /\ calls[k].tail - calls[k].head >= 2
          /\ calls[k].tail < tms0Pos
          /\ At(tdi_stream, calls[k].tail) # At(tdi_stream, calls[k].head)

\* the indices p >= 1 where a run of tms ones ends: tms[p-1] = 1, tms[p] = 0
RunEnds == {p \in 1..(N - 1) : At(tms_stream, p - 1) = 1 /\ At(tms_stream, p) = 0}

\* C17: the 0 that ends a run of tms ones is sent as the final bit of a
\* TmsRun and never inside a TdiRun, and every TdiRun starts at index 0 or
\* right after an index with tms = 0.
C17_ReturnBitInTmsRun ==
    EqualLen =>
        /\ \A k \in 1..Len(calls) :
              calls[k].kind = "tdi" =>
                  /\ calls[k].head = 0 \/ At(tms_stream, calls[k].head - 1) = 0
                  /\ \A p \in RunEnds : ~(calls[k].head <= p /\ p < calls[k].tail)
        /\ pc = "done" =>
              \A p \in RunEnds :
                  \E k \in 1..Len(calls) :
                      calls[k].kind = "tms" /\ calls[k].tail = p + 1

C17_Witness ==
    /\ EqualLen /\ pc = "done"
    /\ \E p \in RunEnds :
          /\ p + 1 < N
          /\ \E j, k \in 1..Len(calls) :
                /\ calls[j].kind = "tms" /\ calls[j].tail = p + 1
                /\ calls[k].kind = "tdi" /\ calls[k].head = p + 1

\* C18: a TmsRun over [head, tail) is shorter than 7 only if tail = N, or
\* tms[tail-1] = 0, or tdi[tail] differs from tdi[head]; otherwise it has
\* exactly 7 bits.
C18_Greedy ==
    EqualLen =>
        \A k \in 1..Len(calls) :
            calls[k].kind = "tms" =>
                LET c == calls[k]
                IN  \/ c.tail - c.head = MaxTmsBits
                    \/ /\ c.tail - c.head < MaxTmsBits
                       /\ \/ c.tail = N
                          \/ At(tms_stream, c.tail - 1) = 0
                          \/ At(tdi_stream, c.tail) # At(tdi_stream, c.head)

\* a full TmsRun of 7 ones followed, in the same run, by a shorter one
C18_Witness ==
    /\ EqualLen
    /\ \E j, k \in 1..Len(calls) :
          /\ calls[j].kind = "tms" /\ calls[k].kind = "tms"
          /\ calls[j].tail - calls[j].head = MaxTmsBits
          /\ calls[j].tail < N
          /\ At(tms_stream, calls[j].tail - 1) = 1
          /\ At(tdi_stream, calls[j].tail) = At(tdi_stream, calls[j].head)
          /\ calls[k].head = calls[j].tail
          /\ calls[k].tail - calls[k].head < MaxTmsBits

\* C20: a tms_bits slice passed to write_tms_tdi_read_tdo contains at most
\* one 0, and only at its final position; a slice may be the single bit 0.
C20_ZeroOnlyLast ==
    \A k \in 1..Len(calls) :
        calls[k].kind = "tms" =>
            LET b == calls[k].bits
            IN  /\ Cardinality({i \in 1..Len(b) : b[i] = 0}) <= 1
                /\ \A i \in 1..Len(b) : b[i] = 0 => i = Len(b)

\* the slice that is the single bit 0, after a change of tdi cut the run
C20_Witness ==
    \E k \in 2..Len(calls) :
        /\ calls[k].kind = "tms" /\ calls[k].bits = <<0>>
        /\ calls[k - 1].kind = "tms"
        /\ calls[k - 1].tdi # calls[k].tdi

Terminated == pc \in {"done", "raised"}

\* C19: for equal-length input send_data terminates: every emitted segment
\* has tail > head, head never moves back, at most N hardware calls are
\* made, and the call ends, with head = N when every call returned and in
\* the error of the device otherwise.
C19_Terminates ==
    /\ [](EqualLen =>
            /\ Len(calls) <= N
            /\ \A k \in 1..Len(calls) : calls[k].head < calls[k].tail
            /\ pc = "done" => head = N
            /\ pc = "raised" =>
                  calls # <<>> /\ calls[Len(calls)].status = "raised")
    /\ [][head' >= head]_vars
    /\ (EqualLen => <>Terminated)

\* the longest case: N segments of one bit each, all returned
C19_Witness ==
    /\ pc = "done" /\ EqualLen /\ N >= 3
    /\ Len(calls) = N /\ head = N

\* the segments send_data emits for equal-length tms / tdi from position h
\* on, computed from the two vectors alone
RECURSIVE RefSegments(_, _, _), RefTmsSegments(_, _, _, _)
RefSegments(tms, tdi, h) ==
    IF h >= Len(tms) THEN <<>>
    ELSE LET p1 == Tms1Pos(tms, h)
         IN  (IF p1 > h THEN << <<"tdi", h, p1, NoPos>> >> ELSE <<>>)
             \o (IF p1 >= Len(tms) THEN <<>>
                 ELSE RefTmsSegments(tms, tdi, p1, Tms0Pos(tms, p1)))

RefTmsSegments(tms, tdi, h, t0) ==
    IF t0 > h
    THEN LET t == TdiSplit(tdi, h, TailLimit(t0, h))
         IN  << <<"tms", h, t, TdiValue(tdi, h, t, t0)>> >>
             \o RefTmsSegments(tms, tdi, t, t0)
    ELSE RefSegments(tms, tdi, h)

IsPrefix(a, b) == Len(a) <= Len(b) /\ SubSeq(b, 1, Len(a)) = a

\* C14: the verbosity level does not influence send_data: at every level the
\* sequence of hardware calls (kind, range, bits, tdi value) is the one fixed
\* by tms and tdi alone and the returned vector is the concatenation of the
\* replies, so two runs on the same input and the same replies that differ
\* only in the level make the same calls and return the same vector.
C14_VerbosityIndependent ==
    (EqualLen /\ pc # "idle") =>
        /\ IsPrefix(Segments, RefSegments(tms_stream, tdi_stream, 0))
        /\ \A k \in 1..Len(calls) :
              calls[k].bits =
                  Slice(IF calls[k].kind = "tdi" THEN tdi_stream ELSE tms_stream,
                        calls[k].head, calls[k].tail)
        /\ tdo_stream =
              ConcatResp(SelectSeq(calls, LAMBDA c : c.status = "returned"))
        /\ pc = "done" =>
              /\ Segments = RefSegments(tms_stream, tdi_stream, 0)
              /\ result = ConcatResp(calls)

\* a run at a level that prints, with both kinds of segment
C14_Witness ==
    /\ EqualLen /\ pc = "done"
    /\ verbosity_level >= VerboseSegments
    /\ Len(printed) = Len(calls) /\ Len(calls) >= 3
    /\ \E j, k \in 1..Len(calls) : calls[j].kind = "tdi" /\ calls[k].kind = "tms"

\* C15: set_tck_period(period) with a positive period delegates exactly one
\* frequency request to the device and returns normally, not in an error.
C15_SetTckPeriodReturns ==
    period > 0 =>
        /\ pc # "raised"
        /\ Terminated =>
              Cardinality({k \in 1..Len(calls) : calls[k].kind = "freq"}) = 1

====
